---- MODULE Spec2Model ----
(***************************************************************************)
(* Model of the R2 bucket client of workers-rs (worker/src/r2) together    *)
(* with the host binding it talks to (worker-sys/src/r2.rs) and the        *)
(* sandbox handlers that exercise it (worker-sandbox/src/r2.rs).           *)
(*                                                                         *)
(* Every builder's execute() is an async fn with one suspend point, the    *)
(* round trip to the binding.  An operation is therefore three steps:      *)
(*   Call    - the synchronous part before the await: the request is       *)
(*             encoded (R2Data -> JsValue, options -> firm(...)) and       *)
(*             handed to the binding;                                      *)
(*   Serve   - the binding settles the promise (resolve or reject);        *)
(*   Resolve - the part after the await: the response is translated into   *)
(*             Object / Objects / Err.                                     *)
(* Options are written None == <<>> and Some(x) == <<x>>.                  *)
(***************************************************************************)
EXTENDS Integers, Sequences, FiniteSets, TLC

VARIABLES
    store,    \* the bucket: key -> None | Some(stored object)
    clock,    \* the store's write counter; stamps etag and uploaded
    pc,       \* per caller: "idle", "called" (promise pending), "served" (settled)
    cur,      \* per caller: the builder and the request it sent last
    resp,     \* per caller: the settled promise of the request
    result,   \* per caller: what the operation returned to the caller
    body,     \* per caller: the body handle of the Object in result
    resolved, \* history: per key, the last put or delete that resolved successfully
    settled,  \* history: the same, but "any" while or after mutations overlap
    chain,    \* history: the pages of the listing that is being continued
    seeded    \* the sandbox's SEEDED flag (worker-sandbox/src/r2.rs:10)

vars == <<store, clock, pc, cur, resp, result, body, resolved, settled, chain, seeded>>

\* ------------------------------------------------------------------ bounds
MaxClock == 1
MaxStreamCalls == 2
MaxRange == 3

Callers == {1, 2}

\* Keys are short strings over a two letter alphabet, written as sequences so
\* that prefixes and the lexicographic order of a listing can be computed.
Keys == {<<1>>, <<1, 2>>, <<2>>}

None == <<>>
Some(x) == <<x>>
IsSome(o) == Len(o) = 1
Unwrap(o) == o[1]

\* ---------------------------------------------------------------- payloads
\* R2Data, worker/src/r2/mod.rs:175-180.  One record shape for the four
\* variants; `fails` says that the chunk source yields Err after `chunks`.
DNone == [tag |-> "None", text |-> <<>>, bytes |-> <<>>, chunks |-> <<>>, fails |-> FALSE]
DText(t) == [tag |-> "Text", text |-> t, bytes |-> <<>>, chunks |-> <<>>, fails |-> FALSE]
DBytes(b) == [tag |-> "Bytes", text |-> <<>>, bytes |-> b, chunks |-> <<>>, fails |-> FALSE]
DStream(ch, f) == [tag |-> "Stream", text |-> <<>>, bytes |-> <<>>, chunks |-> ch, fails |-> f]

\* The Text payloads use the code points 'A' (65), U+00E9 (233) and U+10000
\* (65536): one, two and four bytes of UTF-8; U+10000 is a surrogate pair in a
\* JS string.

Payloads ==
    { DNone,
      DText(<<65>>), DText(<<233, 65536>>),
      DBytes(<<>>), DBytes(<<0, 255>>),
      DStream(<<>>, FALSE), DStream(<<<<7>>, <<8, 9>>>>, FALSE),
      DStream(<<>>, TRUE), DStream(<<<<7>>>>, TRUE) }

RECURSIVE Concat(_)
Concat(ss) == IF ss = <<>> THEN <<>> ELSE Head(ss) \o Concat(Tail(ss))

\* UTF-8 encoding of one code point (the bytes a Rust String holds).
Utf8(c) ==
    IF c < 128 THEN <<c>>
    ELSE IF c < 2048 THEN <<192 + (c \div 64), 128 + (c % 64)>>
    ELSE IF c < 65536 THEN <<224 + (c \div 4096), 128 + ((c \div 64) % 64), 128 + (c % 64)>>
    ELSE <<240 + (c \div 262144), 128 + ((c \div 4096) % 64),
           128 + ((c \div 64) % 64), 128 + (c % 64)>>

\* UTF-16 code units of one code point (what JsString::from produces).
Utf16(c) ==
    IF c < 65536 THEN <<c>>
    ELSE <<55296 + ((c - 65536) \div 1024), 56320 + ((c - 65536) % 1024)>>

RECURSIVE FlatMap(_, _)
FlatMap(F(_), s) == IF s = <<>> THEN <<>> ELSE F(Head(s)) \o FlatMap(F, Tail(s))

\* The bytes of a payload as the caller wrote them.
PayloadBytes(d) ==
    CASE d.tag = "None" -> <<>>
      [] d.tag = "Text" -> FlatMap(Utf8, d.text)
      [] d.tag = "Bytes" -> d.bytes
      [] d.tag = "Stream" -> Concat(d.chunks)

\* impl From<R2Data> for JsValue, worker/src/r2/mod.rs:205-231.
\*   Stream -> a ReadableStream of Uint8Array chunks; an Err item of the
\*             source becomes a stream error (map_err(.. JsValue ..))
\*   Text   -> a JS string,  Bytes -> a Uint8Array,  None -> undefined
JsUndefinedValue == [bytes |-> <<>>, chunks |-> <<>>, kind |-> "undefined", units |-> <<>>, errors |-> FALSE]

\* R2DataToJs without the copy_from of mod.rs:227: the array keeps its zeros.
R2DataToJs_NoCopy(d) ==
    CASE d.tag = "Stream" ->
            [bytes |-> <<>>, chunks |-> d.chunks, kind |-> "stream",
             units |-> <<>>, errors |-> d.fails]
      [] d.tag = "Text" ->
            [bytes |-> <<>>, chunks |-> <<>>, kind |-> "string",
             units |-> FlatMap(Utf16, d.text), errors |-> FALSE]
      [] d.tag = "Bytes" ->
            [bytes |-> [i \in 1..Len(d.bytes) |-> 0], chunks |-> <<>>, kind |-> "u8array",
             units |-> <<>>, errors |-> FALSE]
      [] d.tag = "None" -> JsUndefinedValue

\* R2DataToJs with the Err items of the source filtered out instead of mapped
\* (mod.rs:215-216): the stream ends where the source failed.
R2DataToJs_ErrorEndsStream(d) ==
    CASE d.tag = "Stream" ->
            [bytes |-> <<>>, chunks |-> d.chunks, kind |-> "stream",
             units |-> <<>>, errors |-> FALSE]
      [] d.tag = "Text" ->
            [bytes |-> <<>>, chunks |-> <<>>, kind |-> "string",
             units |-> FlatMap(Utf16, d.text), errors |-> FALSE]
      [] d.tag = "Bytes" ->
            [bytes |-> d.bytes, chunks |-> <<>>, kind |-> "u8array",
             units |-> <<>>, errors |-> FALSE]
      [] d.tag = "None" -> JsUndefinedValue

R2DataToJs(d) ==
    CASE d.tag = "Stream" ->
            [bytes |-> <<>>, chunks |-> d.chunks, kind |-> "stream",
             units |-> <<>>, errors |-> d.fails]
      [] d.tag = "Text" ->
            [bytes |-> <<>>, chunks |-> <<>>, kind |-> "string",
             units |-> FlatMap(Utf16, d.text), errors |-> FALSE]
      [] d.tag = "Bytes" ->
            [bytes |-> d.bytes, chunks |-> <<>>, kind |-> "u8array",
             units |-> <<>>, errors |-> FALSE]
      [] d.tag = "None" -> JsUndefinedValue

\* --------------------------------------------------------------- JS values
\* The values that cross the boundary as options.  A wasm-bindgen struct is
\* a class instance whose prototype carries one getter per pub field
\* (worker-sys/src/r2.rs:82-143); the other kinds are JS built-ins.
JsUndef == [kind |-> "undefined"]
JsStr(s) == [s |-> s, kind |-> "string"]
JsNum(n) == [kind |-> "number", n |-> n]
JsDate(ms) == [kind |-> "date", ms |-> ms]
JsArray(elems) == [kind |-> "array", elems |-> elems]
JsBuffer(bytes) == [bytes |-> bytes, kind |-> "arraybuffer"]
JsPlain(props) == [kind |-> "object", props |-> props]
JsClass(cls, fields) == [kind |-> "class", cls |-> cls, fields |-> fields]

NoProps == [n \in {} |-> JsUndef]

OptStr(o) == IF IsSome(o) THEN JsStr(Unwrap(o)) ELSE JsUndef
OptNum(o) == IF IsSome(o) THEN JsNum(Unwrap(o)) ELSE JsUndef
OptDate(o) == IF IsSome(o) THEN JsDate(Unwrap(o)) ELSE JsUndef

\* `value && typeof value === 'object'`, builder.rs:381.
IsJsObject(v) == v.kind \in {"date", "array", "arraybuffer", "object", "class"}

\* firm(obj), builder.rs:364-390: a new plain object holding obj[key] for every
\* key that is a getter on obj's prototype, object values firmed recursively.
\*   class instance : the getters are its pub fields;
\*   Date, Array    : the prototype has no getter, so the result is {};
\*   ArrayBuffer    : the only getter modelled is byteLength;
\*   plain object   : Object.prototype's only getter is __proto__, whose value
\*                    firm returns unchanged (its own prototype is null) and
\*                    whose assignment sets no own property: the result is {}.
RECURSIVE firm(_)
firm(obj) ==
    LET FirmField(value) == IF IsJsObject(value) THEN firm(value) ELSE value
    IN  CASE obj.kind = "class" ->
                JsPlain([key \in DOMAIN obj.fields |-> FirmField(obj.fields[key])])
          [] obj.kind = "arraybuffer" ->
                JsPlain([key \in {"byteLength"} |-> JsNum(Len(obj.bytes))])
          [] obj.kind \in {"date", "array", "object"} -> JsPlain(NoProps)
          [] OTHER -> obj

\* Reading a property of a firmed options object.
Prop(o, name) == IF name \in DOMAIN o.props THEN o.props[name] ELSE JsUndef

\* ------------------------------------------------------------ option types
\* R2Conditional, builder.rs:74-84, and its conversion, builder.rs:86-95.
Conditional(em, ednm, ub, ua) ==
    [etag_matches |-> em, etag_does_not_match |-> ednm,
     uploaded_before |-> ub, uploaded_after |-> ua]

ConditionalToSys(val) ==
    JsClass("R2Conditional",
            [etagMatches |-> OptStr(val.etag_matches),
             etagDoesNotMatch |-> OptStr(val.etag_does_not_match),
             uploadedBefore |-> OptDate(val.uploaded_before),
             uploadedAfter |-> OptDate(val.uploaded_after)])

\* Range, builder.rs:97-103.
OffsetWithLength(o, l) == [variant |-> "OffsetWithLength", offset |-> Some(o), length |-> Some(l), suffix |-> None]
OffsetWithOptionalLength(o, l) == [variant |-> "OffsetWithOptionalLength", offset |-> Some(o), length |-> l, suffix |-> None]
OptionalOffsetWithLength(o, l) == [variant |-> "OptionalOffsetWithLength", offset |-> o, length |-> Some(l), suffix |-> None]
Suffix(s) == [variant |-> "Suffix", offset |-> None, length |-> None, suffix |-> Some(s)]

\* impl From<Range> for R2RangeSys, builder.rs:105-130.
R2RangeSys(o, l, s) == [offset |-> o, length |-> l, suffix |-> s]

\* From<Range> for R2RangeSys with the length of OffsetWithOptionalLength
\* left out of the descriptor.
RangeToSys_DropsLength(val) ==
    CASE val.variant = "OffsetWithLength" -> R2RangeSys(val.offset, val.length, None)
      [] val.variant = "OffsetWithOptionalLength" -> R2RangeSys(val.offset, None, None)
      [] val.variant = "OptionalOffsetWithLength" -> R2RangeSys(val.offset, val.length, None)
      [] val.variant = "Suffix" -> R2RangeSys(None, None, val.suffix)

RangeToSys(val) ==
    CASE val.variant = "OffsetWithLength" -> R2RangeSys(val.offset, val.length, None)
      [] val.variant = "OffsetWithOptionalLength" -> R2RangeSys(val.offset, val.length, None)
      [] val.variant = "OptionalOffsetWithLength" -> R2RangeSys(val.offset, val.length, None)
      [] val.variant = "Suffix" -> R2RangeSys(None, None, val.suffix)

\* impl TryFrom<R2RangeSys> for Range with a descriptor of length and suffix
\* read as a suffix range instead of refused.
RangeTryFrom_SuffixWins(val) ==
    CASE IsSome(val.offset) /\ IsSome(val.length) /\ ~IsSome(val.suffix) ->
            [tag |-> "Ok", v |-> OffsetWithLength(Unwrap(val.offset), Unwrap(val.length))]
      [] IsSome(val.offset) /\ ~IsSome(val.length) /\ ~IsSome(val.suffix) ->
            [tag |-> "Ok", v |-> OffsetWithOptionalLength(Unwrap(val.offset), None)]
      [] ~IsSome(val.offset) /\ IsSome(val.length) /\ ~IsSome(val.suffix) ->
            [tag |-> "Ok", v |-> OptionalOffsetWithLength(None, Unwrap(val.length))]
      [] ~IsSome(val.offset) /\ IsSome(val.suffix) ->
            [tag |-> "Ok", v |-> Suffix(Unwrap(val.suffix))]
      [] OTHER -> [tag |-> "Err", e |-> "invalid range"]

\* impl TryFrom<R2RangeSys> for Range, builder.rs:132-150.
RangeTryFrom(val) ==
    CASE IsSome(val.offset) /\ IsSome(val.length) /\ ~IsSome(val.suffix) ->
            [tag |-> "Ok", v |-> OffsetWithLength(Unwrap(val.offset), Unwrap(val.length))]
      [] IsSome(val.offset) /\ ~IsSome(val.length) /\ ~IsSome(val.suffix) ->
            [tag |-> "Ok", v |-> OffsetWithOptionalLength(Unwrap(val.offset), None)]
      [] ~IsSome(val.offset) /\ IsSome(val.length) /\ ~IsSome(val.suffix) ->
            [tag |-> "Ok", v |-> OptionalOffsetWithLength(None, Unwrap(val.length))]
      [] ~IsSome(val.offset) /\ ~IsSome(val.length) /\ IsSome(val.suffix) ->
            [tag |-> "Ok", v |-> Suffix(Unwrap(val.suffix))]
      [] OTHER -> [tag |-> "Err", e |-> "invalid range"]

RangeSysToJs(r) ==
    JsClass("R2Range",
            [offset |-> OptNum(r.offset), length |-> OptNum(r.length),
             suffix |-> OptNum(r.suffix)])

\* HttpMetadata, builder.rs:231-239, and its conversions, builder.rs:241-265.
HttpMetadata(ct, cl, cd, ce, cc, cx) ==
    [content_type |-> ct, content_language |-> cl, content_disposition |-> cd,
     content_encoding |-> ce, cache_control |-> cc, cache_expiry |-> cx]

HttpMetadataToSys(val) ==
    JsClass("R2HttpMetadata",
            [contentType |-> OptStr(val.content_type),
             contentLanguage |-> OptStr(val.content_language),
             contentDisposition |-> OptStr(val.content_disposition),
             contentEncoding |-> OptStr(val.content_encoding),
             cacheControl |-> OptStr(val.cache_control),
             cacheExpiry |-> OptDate(val.cache_expiry)])

\* Custom metadata is a HashMap<String, String>, written as a function from
\* keys to values; builder.rs:192-201 copies it into a fresh JS object.
NoMap == [n \in {} |-> ""]

CustomMetadataToJs(o) ==
    IF IsSome(o)
    THEN JsPlain([k \in DOMAIN Unwrap(o) |-> JsStr(Unwrap(o)[k])])
    ELSE JsUndef

\* Include, builder.rs:353-357, and the array built in builder.rs:332-344:
\* Array::new_with_length(n) has n empty slots, push appends after them.
IncludeName(i) == IF i = "HttpMetadata" THEN "httpMetadata" ELSE "customMetadata"

RECURSIVE MapSeq(_, _)
MapSeq(F(_), s) == IF s = <<>> THEN <<>> ELSE <<F(Head(s))>> \o MapSeq(F, Tail(s))

IncludeToJs(o) ==
    IF IsSome(o)
    THEN JsArray([i \in 1..Len(Unwrap(o)) |-> JsUndef]
                 \o MapSeq(LAMBDA i : JsStr(IncludeName(i)), Unwrap(o)))
    ELSE JsUndef

\* ------------------------------------------------------------- the binding
\* The host's R2Bucket (worker-sys/src/r2.rs:7-24) is not part of this code
\* base; it is modelled after its interface contract.  An option field whose
\* value is not of the declared type (a plain object where a Date or an array
\* is expected) is either refused with a TypeError or treated as absent,
\* depending on the host.
Min(a, b) == IF a < b THEN a ELSE b
Max(a, b) == IF a < b THEN b ELSE a

RECURSIVE Utf16ToUtf8(_)
Utf16ToUtf8(units) ==
    IF units = <<>> THEN <<>>
    ELSE IF Head(units) >= 55296 /\ Head(units) < 56320 /\ Len(units) >= 2
         THEN Utf8(65536 + (Head(units) - 55296) * 1024 + (units[2] - 56320))
              \o Utf16ToUtf8(Tail(Tail(units)))
         ELSE Utf8(Head(units)) \o Utf16ToUtf8(Tail(units))

\* The bytes the store keeps for a put value.
ValueBytes(value) ==
    CASE value.kind = "undefined" -> <<>>
      [] value.kind = "string" -> Utf16ToUtf8(value.units)
      [] value.kind = "u8array" -> value.bytes
      [] value.kind = "stream" -> Concat(value.chunks)

RECURSIVE SumSeq(_)
SumSeq(s) == IF s = <<>> THEN 0 ELSE Head(s) + SumSeq(Tail(s))

\* A stand-in for the MD5 digest: a function of the content only.
Md5(bytes) == <<SumSeq(bytes) % 256, Len(bytes) % 256>>

Resolved(v) == [value |-> v, status |-> "resolved"]
Rejected(e) == [value |-> [kind |-> "error", error |-> e], status |-> "rejected"]

JsNull == [kind |-> "null"]

\* An R2Object / R2ObjectBody handed out by the binding.  hasBodyUsed says
\* whether the object has a `bodyUsed` property, i.e. is an R2ObjectBody.
R2Object(o) == [body |-> <<>>, kind |-> "R2Object", obj |-> o, hasBodyUsed |-> FALSE]
R2ObjectBody(o, bytes) == [body |-> bytes, kind |-> "R2Object", obj |-> o, hasBodyUsed |-> TRUE]

\* Decoding of the fields of a firmed options object.
FieldOk(v, kinds) == v.kind \in kinds \cup {"undefined"}

DecodeStr(v) == IF v.kind = "string" THEN Some(v.s) ELSE None
DecodeNum(v) == IF v.kind = "number" THEN Some(v.n) ELSE None
DecodeDate(v) == IF v.kind = "date" THEN Some(v.ms) ELSE None

DecodeHttp(v) ==
    IF v.kind = "object"
    THEN HttpMetadata(DecodeStr(Prop(v, "contentType")), DecodeStr(Prop(v, "contentLanguage")),
                      DecodeStr(Prop(v, "contentDisposition")), DecodeStr(Prop(v, "contentEncoding")),
                      DecodeStr(Prop(v, "cacheControl")), DecodeDate(Prop(v, "cacheExpiry")))
    ELSE HttpMetadata(None, None, None, None, None, None)

DecodeCustom(v) ==
    IF v.kind = "object" THEN [k \in DOMAIN v.props |-> v.props[k].s] ELSE NoMap

PutOptionsWellTyped(options) ==
    /\ FieldOk(Prop(options, "httpMetadata"), {"object", "class"})
    /\ Prop(options, "httpMetadata").kind = "object"
          => FieldOk(Prop(Prop(options, "httpMetadata"), "cacheExpiry"), {"date"})
    /\ FieldOk(Prop(options, "customMetadata"), {"object"})
    /\ FieldOk(Prop(options, "md5"), {"arraybuffer"})

\* R2Bucket.put: all or nothing.  A stream that errors, a digest that does not
\* match, or a refused option leaves the store as it was.  `by` remembers the
\* builder the object was written with.  The client looks for a bodyUsed
\* property on what put, head and list answer (builder.rs:212), so the host is
\* given the latitude to answer with either shape of object.
BindingPut(st, now, req) ==
    LET options == req.options
        value == req.value
        bytes == ValueBytes(value)
        md5 == Prop(options, "md5")
        obj == [key |-> req.key, hasBody |-> value.kind # "undefined", data |-> bytes,
                http |-> DecodeHttp(Prop(options, "httpMetadata")),
                custom |-> DecodeCustom(Prop(options, "customMetadata")),
                etag |-> now + 1, uploaded |-> now + 1, by |-> req.builder]
        commit(r) == [store |-> [st EXCEPT ![req.key] = Some(obj)],
                      clock |-> now + 1, resp |-> Resolved(r)]
        commits == {commit(R2Object(obj)), commit(R2ObjectBody(obj, bytes))}
        refuse(e) == [store |-> st, clock |-> now, resp |-> Rejected(e)]
    IN  IF value.kind = "stream" /\ value.errors THEN {refuse("stream")}
        ELSE IF md5.kind = "arraybuffer" /\ md5.bytes # Md5(bytes) THEN {refuse("md5")}
        ELSE IF ~PutOptionsWellTyped(options) THEN {refuse("type")} \cup commits
        ELSE commits

\* Conditional of a get: every field that is present must hold.
ConditionHolds(onlyIf, o) ==
    \/ onlyIf.kind # "object"
    \/ /\ Prop(onlyIf, "etagMatches").kind = "string" => Prop(onlyIf, "etagMatches").s = o.etag
       /\ Prop(onlyIf, "etagDoesNotMatch").kind = "string" => Prop(onlyIf, "etagDoesNotMatch").s # o.etag
       /\ Prop(onlyIf, "uploadedBefore").kind = "date" => o.uploaded < Prop(onlyIf, "uploadedBefore").ms
       /\ Prop(onlyIf, "uploadedAfter").kind = "date" => o.uploaded > Prop(onlyIf, "uploadedAfter").ms

GetOptionsWellTyped(options) ==
    /\ FieldOk(Prop(options, "onlyIf"), {"object", "class"})
    /\ Prop(options, "onlyIf").kind = "object"
          => /\ FieldOk(Prop(Prop(options, "onlyIf"), "uploadedBefore"), {"date"})
             /\ FieldOk(Prop(Prop(options, "onlyIf"), "uploadedAfter"), {"date"})
    /\ FieldOk(Prop(options, "range"), {"object", "class"})

\* The byte window a range selects.
ApplyRange(range, bytes) ==
    IF range.kind # "object" THEN bytes
    ELSE LET off == DecodeNum(Prop(range, "offset"))
             len == DecodeNum(Prop(range, "length"))
             suf == DecodeNum(Prop(range, "suffix"))
             from == IF IsSome(off) THEN Min(Unwrap(off), Len(bytes)) ELSE 0
             upto == IF IsSome(len) THEN Min(from + Unwrap(len), Len(bytes)) ELSE Len(bytes)
         IN  IF IsSome(suf)
             THEN SubSeq(bytes, Len(bytes) - Min(Unwrap(suf), Len(bytes)) + 1, Len(bytes))
             ELSE SubSeq(bytes, from + 1, upto)

\* R2Bucket.get: null for an absent key; the object without a body when the
\* conditional fails or nothing was stored as its value; else with its body.
BindingGet(st, now, req) ==
    LET options == req.options
        keep(r) == [store |-> st, clock |-> now, resp |-> r]
        o == Unwrap(st[req.key])
        answer == IF ~IsSome(st[req.key]) THEN keep(Resolved(JsNull))
                  ELSE IF ~o.hasBody \/ ~ConditionHolds(Prop(options, "onlyIf"), o)
                       THEN keep(Resolved(R2Object(o)))
                       ELSE keep(Resolved(R2ObjectBody(o, ApplyRange(Prop(options, "range"), o.data))))
    IN  IF GetOptionsWellTyped(options) THEN {answer}
        ELSE {keep(Rejected("type")), answer}

\* R2Bucket.head and R2Bucket.delete.
BindingHead(st, now, req) ==
    LET keep(r) == [store |-> st, clock |-> now, resp |-> r]
        o == Unwrap(st[req.key])
    IN  IF IsSome(st[req.key])
        THEN {keep(Resolved(R2Object(o))), keep(Resolved(R2ObjectBody(o, o.data)))}
        ELSE {keep(Resolved(JsNull))}

BindingDelete(st, now, req) ==
    {[store |-> [st EXCEPT ![req.key] = None], clock |-> now, resp |-> Resolved(JsUndef)]}

\* ---------------------------------------------------------------- listing
RECURSIVE KeyLess(_, _)
KeyLess(a, b) ==
    IF a = <<>> THEN b # <<>>
    ELSE IF b = <<>> THEN FALSE
    ELSE IF Head(a) # Head(b) THEN Head(a) < Head(b)
    ELSE KeyLess(Tail(a), Tail(b))

RECURSIVE SortKeys(_)
SortKeys(S) ==
    IF S = {} THEN <<>>
    ELSE LET m == CHOOSE x \in S : \A y \in S : x = y \/ KeyLess(x, y)
         IN  <<m>> \o SortKeys(S \ {m})

IsPrefix(p, k) == Len(p) <= Len(k) /\ SubSeq(k, 1, Len(p)) = p

\* The delimited prefix of key k below prefix p for delimiter d, if any.
DelimitedPrefix(p, d, k) ==
    LET hits == {i \in (Len(p) + 1)..Len(k) : k[i] = d}
    IN  IF hits = {} THEN None
        ELSE Some(SubSeq(k, 1, CHOOSE i \in hits : \A j \in hits : i <= j))

ListLimitDefault == 1000
ListLimitMax == 1000

ListOptionsWellTyped(options) == FieldOk(Prop(options, "include"), {"array"})

IncludedNames(include) ==
    IF include.kind = "array"
    THEN {include.elems[i].s : i \in {j \in 1..Len(include.elems) : include.elems[j].kind = "string"}}
    ELSE {}

\* R2Bucket.list: the keys in lexicographic order, filtered by prefix, resumed
\* after the cursor, cut at the limit; truncated and cursor say whether and
\* where the listing continues.
BindingList(st, now, req) ==
    LET options == req.options
        keep(r) == [store |-> st, clock |-> now, resp |-> r]
        limitOpt == DecodeNum(Prop(options, "limit"))
        limit == IF IsSome(limitOpt) THEN Unwrap(limitOpt) ELSE ListLimitDefault
        prefixOpt == DecodeStr(Prop(options, "prefix"))
        prefix == IF IsSome(prefixOpt) THEN Unwrap(prefixOpt) ELSE <<>>
        cursor == DecodeStr(Prop(options, "cursor"))
        delim == DecodeStr(Prop(options, "delimiter"))
        names == IncludedNames(Prop(options, "include"))
        present == {k \in Keys : IsSome(st[k]) /\ IsPrefix(prefix, k)}
        group(k) == IF IsSome(delim) THEN DelimitedPrefix(prefix, Unwrap(delim), k) ELSE None
        entry(k) == IF IsSome(group(k)) THEN Unwrap(group(k)) ELSE k
        entries == {entry(k) : k \in present}
        rest == SortKeys({e \in entries : IsSome(cursor) => KeyLess(Unwrap(cursor), e)})
        page == SubSeq(rest, 1, Min(Min(limit, ListLimitMax), Len(rest)))
        truncated == Len(page) < Len(rest)
        isKey(e) == e \in present /\ ~IsSome(group(e))
        listed(o) == [o EXCEPT !.http = IF "httpMetadata" \in names THEN @
                                        ELSE HttpMetadata(None, None, None, None, None, None),
                               !.custom = IF "customMetadata" \in names THEN @ ELSE NoMap]
        answer == keep(Resolved(
                    [kind |-> "R2Objects",
                     cursor |-> IF truncated /\ page # <<>> THEN Some(page[Len(page)]) ELSE None,
                     truncated |-> truncated,
                     objects |-> MapSeq(LAMBDA k : R2Object(listed(Unwrap(st[k]))),
                                        SelectSeq(page, isKey)),
                     delimitedPrefixes |-> SelectSeq(page, LAMBDA e : ~isKey(e))]))
    IN  IF ~ListOptionsWellTyped(options) \/ limit > ListLimitMax
        THEN {keep(Rejected("type")), answer}
        ELSE {answer}

\* ------------------------------------------------------------- the client
Ok(v) == [tag |-> "Ok", v |-> v]
Err(e) == [tag |-> "Err", e |-> e]
Panicked == [tag |-> "Panic"]
NoResult == [tag |-> "NoResult"]

\* Object and ObjectInner, mod.rs:92-94 and mod.rs:169-173.
Object(inner, raw) == [inner |-> inner, raw |-> raw]

\* Object::body, mod.rs:96-103.
HasBody(object) == object.inner = "Body"

\* Bucket::get and the setters of GetOptionsBuilder, mod.rs:39-46, builder.rs:27-37.
BucketGet(key) == [key |-> key, range |-> None, only_if |-> None]
only_if(self, c) == [self EXCEPT !.only_if = Some(c)]
range(self, r) == [self EXCEPT !.range = Some(r)]

\* Bucket::put and the setters of PutOptionsBuilder, mod.rs:53-62, builder.rs:164-173.
BucketPut(key, value) ==
    [value |-> value, key |-> key, md5 |-> None, http_metadata |-> None, custom_metadata |-> None]
http_metadata(self, m) == [self EXCEPT !.http_metadata = Some(m)]
custom_metdata(self, m) == [self EXCEPT !.custom_metadata = Some(m)]

\* Bucket::list and the setters of ListOptionsBuilder, mod.rs:77-86, builder.rs:279-322.
BucketList ==
    [include |-> None, limit |-> None, prefix |-> None, cursor |-> None, delimiter |-> None]
limit(self, n) == [self EXCEPT !.limit = Some(n)]
prefix(self, p) == [self EXCEPT !.prefix = Some(p)]
cursor(self, x) == [self EXCEPT !.cursor = Some(x)]
delimiter(self, d) == [self EXCEPT !.delimiter = Some(d)]
include(self, i) == [self EXCEPT !.include = Some(i)]

WithOpt(self, o, Set(_, _)) == IF IsSome(o) THEN Set(self, Unwrap(o)) ELSE self

OptSys(o, F(_)) == IF IsSome(o) THEN F(Unwrap(o)) ELSE JsUndef

\* A call of the binding: the method, its arguments, and (for the record) the
\* builder it was made from, the API function the caller invoked with its key,
\* and what the caller could know of each key when it called.
Request(o, k, d, v, opts, b) ==
    [value |-> v, key |-> k, options |-> opts, data |-> d, builder |-> b, op |-> o,
     api |-> "none", arg |-> <<>>, known |-> <<>>]

NoRequest == Request("none", <<>>, DNone, JsUndefinedValue, JsUndef, <<>>)

\* The argument GetOptionsBuilder::execute hands to the binding, builder.rs:41-51.
GetRequest(self) ==
    Request("get", self.key, DNone, JsUndefinedValue,
            firm(JsClass("R2GetOptions",
                         [onlyIf |-> OptSys(self.only_if, ConditionalToSys),
                          range |-> OptSys(self.range, LAMBDA r : RangeSysToJs(RangeToSys(r)))])),
            self)

\* The arguments PutOptionsBuilder::execute hands to the binding, builder.rs:183-210.
PutRequest(self) ==
    Request("put", self.key, self.value, R2DataToJs(self.value),
            firm(JsClass("R2PutOptions",
                         [httpMetadata |-> OptSys(self.http_metadata, HttpMetadataToSys),
                          customMetadata |-> CustomMetadataToJs(self.custom_metadata),
                          md5 |-> OptSys(self.md5, JsBuffer)])),
            self)

\* ListRequest with the cursor left out (builder.rs:329 dropped).
ListRequest_NoCursor(self) ==
    Request("list", <<>>, DNone, JsUndefinedValue,
            firm(JsClass("R2ListOptions",
                         [include |-> IncludeToJs(self.include),
                          limit |-> OptNum(self.limit),
                          prefix |-> OptStr(self.prefix),
                          cursor |-> JsUndef,
                          delimiter |-> OptStr(self.delimiter)])),
            self)

\* The argument ListOptionsBuilder::execute hands to the binding, builder.rs:326-347.
ListRequest(self) ==
    Request("list", <<>>, DNone, JsUndefinedValue,
            firm(JsClass("R2ListOptions",
                         [include |-> IncludeToJs(self.include),
                          limit |-> OptNum(self.limit),
                          prefix |-> OptStr(self.prefix),
                          cursor |-> OptStr(self.cursor),
                          delimiter |-> OptStr(self.delimiter)])),
            self)

\* Bucket::head and Bucket::delete call the binding with the key alone,
\* mod.rs:24 and mod.rs:70.
HeadRequest(key) == Request("head", key, DNone, JsUndefinedValue, JsUndef, <<>>)

\* Bucket::delete calling the binding's head instead of its delete.
DeleteRequest_WrongMethod(key) == Request("head", key, DNone, JsUndefinedValue, JsUndef, <<>>)

DeleteRequest(key) == Request("delete", key, DNone, JsUndefinedValue, JsUndef, <<>>)

\* The translation of a settled promise, after the await.
\*   get,  builder.rs:53-66;   put,  builder.rs:211-218;   head, mod.rs:25-33;
\*   list, builder.rs:348-349; delete, mod.rs:71-72.
Inner(res) == IF res.kind = "R2Object" /\ res.hasBodyUsed THEN "Body" ELSE "NoBody"

\* GetOptionsBuilder::execute with the failure of the call swallowed: a
\* rejected promise is reported as an absent key.
GetTranslate_SwallowError(r) ==
    IF r.status = "rejected" THEN Ok(None)
    ELSE IF r.value.kind = "null" THEN Ok(None)
    ELSE Ok(Some(Object(Inner(r.value), r.value)))

GetTranslate(r) ==
    IF r.status = "rejected" THEN Err(r.value.error)
    ELSE IF r.value.kind = "null" THEN Ok(None)
    ELSE Ok(Some(Object(Inner(r.value), r.value)))

PutTranslate(r) ==
    IF r.status = "rejected" THEN Err(r.value.error)
    ELSE Ok(Object(Inner(r.value), r.value))

\* Bucket::head translating the handle the way get does, by its bodyUsed
\* property, instead of always building ObjectInner::NoBody.
HeadTranslate_LikeGet(r) ==
    IF r.status = "rejected" THEN Err(r.value.error)
    ELSE IF r.value.kind = "null" THEN Ok(None)
    ELSE Ok(Some(Object(Inner(r.value), r.value)))

HeadTranslate(r) ==
    IF r.status = "rejected" THEN Err(r.value.error)
    ELSE IF r.value.kind = "null" THEN Ok(None)
    ELSE Ok(Some(Object("NoBody", r.value)))

ListTranslate(r) ==
    IF r.status = "rejected" THEN Err(r.value.error) ELSE Ok(r.value)

DeleteTranslate(r) ==
    IF r.status = "rejected" THEN Err(r.value.error) ELSE Ok(<<>>)

\* Objects::objects, Objects::truncated, Objects::cursor, mod.rs:130-152.
ObjectsOf(objects) == MapSeq(LAMBDA raw : Object("NoBody", raw), objects.objects)
Truncated(objects) == objects.truncated
Cursor(objects) == objects.cursor

\* PutOptionsBuilder::md5, builder.rs:176-179: stores the digest and then
\* reaches todo!(), which panics; the builder is never returned.
md5(self, bytes) == [self EXCEPT !.md5 = Some(bytes)]

\* ------------------------------------------------------------------ inputs
HttpDefault == HttpMetadata(None, None, None, None, None, None)
HttpNoExpiry ==
    HttpMetadata(Some("text/text"), Some("en-US"), Some("inline"), Some("gzip"),
                 Some("immutable"), None)
HttpDummy ==
    HttpMetadata(Some("text/text"), Some("en-US"), Some("inline"), Some("gzip"),
                 Some("immutable"), Some(1))

HttpInputs == {None, Some(HttpNoExpiry), Some(HttpDummy)}
CustomInputs == {None, Some([k \in {"a"} |-> "b"])}
Md5Inputs(data) == {Md5(PayloadBytes(data)), <<0, 99>>}

ConditionalAll == Conditional(Some(2), Some(1), Some(1), Some(1))

ConditionalInputs ==
    { Conditional(Some(1), None, None, None),
      Conditional(None, Some(1), None, None),
      Conditional(None, None, Some(1), None),
      ConditionalAll }

RangeInputs == {Suffix(1), OffsetWithLength(1, 1)}

OptionOf(S) == {None} \cup {Some(x) : x \in S}

\* Writes and deletes go to WriteKeys; the other keys hold what the bucket
\* held at the start.
WriteKeys == {<<1, 2>>}

\* <<payload, http metadata, custom metadata>> of a put.
PutInputs ==
    {<<data, None, None>> : data \in Payloads}
    \cup {<<DText(<<65>>), h, m>> : h \in HttpInputs, m \in CustomInputs}

\* <<only_if, range>> of a get.
GetInputs ==
    {<<oi, None>> : oi \in OptionOf(ConditionalInputs)}
    \cup {<<None, Some(r)>> : r \in RangeInputs}
    \cup {<<Some(ConditionalAll), Some(Suffix(1))>>}

\* <<limit, prefix, cursor, include>> of a list.
ListInputs ==
    {<<n, None, x, None>> : n \in OptionOf({1, 2}), x \in OptionOf(Keys)}
    \cup {<<Some(ListLimitMax + 1), None, None, None>>}
    \cup {<<None, Some(<<1>>), None, None>>, <<Some(1), Some(<<1>>), None, None>>,
          <<None, None, None, Some(<<"CustomMetadata">>)>>,
          <<None, None, None, Some(<<"HttpMetadata", "CustomMetadata">>)>>}

\* The same with every option left at its default.
PlainPutInputs == {<<DText(<<65>>), None, None>>}
PlainGetInputs == {<<None, None>>}
PlainListInputs == {<<None, None, None, None>>}

\* ----------------------------------------------------------- initial state
EmptyStore == [k \in Keys |-> None]

\* The object a plain put of `data` under `key` had left in the bucket.
SeedObject(key, data) ==
    LET out == CHOOSE o \in BindingPut(EmptyStore, -1, PutRequest(BucketPut(key, data))) :
                   o.resp.status = "resolved"
    IN  out.store[key]

NoBodyState == [used |-> FALSE, locked |-> FALSE, log |-> <<>>, got |-> None]

NoResponse ==
    [settled |-> <<>>, value |-> JsUndef, status |-> "none", known |-> <<>>, seen |-> None]

NoChain == [limit |-> None, pages |-> <<>>]

\* The bucket as a worker finds it: some keys written earlier.
Seeded(S) == [k \in Keys |-> IF k \in S THEN SeedObject(k, DText(<<65>>)) ELSE None]

InitWith(stores) ==
    /\ store \in stores
    /\ clock = 0
    /\ pc = [c \in Callers |-> "idle"]
    /\ cur = [c \in Callers |-> NoRequest]
    /\ resp = [c \in Callers |-> NoResponse]
    /\ result = [c \in Callers |-> NoResult]
    /\ body = [c \in Callers |-> NoBodyState]
    /\ resolved = [k \in Keys |-> "any"]
    /\ settled = [k \in Keys |-> "any"]
    /\ chain = NoChain
    /\ seeded = FALSE

Init == InitWith({Seeded({}), Seeded({<<1>>}), Seeded({<<1>>, <<2>>}), Seeded(Keys)})

InitShared == InitWith({Seeded({}), Seeded(Keys)})

\* ----------------------------------------------------------------- actions
Mutates(r) == r.api \in {"put", "delete"}

InFlight(c) == pc[c] \in {"called", "served"}

\* Puts that may still commit, for the cap on the write counter.
PendingPuts == Cardinality({c \in Callers : pc[c] = "called" /\ cur[c].api = "put"})

MutationInFlight(key) ==
    \E d \in Callers : InFlight(d) /\ Mutates(cur[d]) /\ cur[d].arg = key

Send(c, api, key, req) ==
    /\ pc[c] = "idle"
    /\ pc' = [pc EXCEPT ![c] = "called"]
    /\ cur' = [cur EXCEPT ![c] = [req EXCEPT !.api = api, !.arg = key, !.known = resolved]]
    /\ result' = [result EXCEPT ![c] = NoResult]
    /\ body' = [body EXCEPT ![c] = NoBodyState]
    /\ settled' = IF api \in {"put", "delete"}
                  THEN [settled EXCEPT ![key] =
                           IF MutationInFlight(key) THEN "clash" ELSE "any"]
                  ELSE settled
    /\ chain' = IF api = "list" THEN chain ELSE NoChain
    /\ UNCHANGED <<seeded, store, clock, resp, resolved>>

\* bucket.get(key)[.only_if(c)][.range(r)].execute(), up to the await.
GetCall(c, keys, inputs) ==
    \E key \in keys, in \in inputs :
        Send(c, "get", key, GetRequest(WithOpt(WithOpt(BucketGet(key), in[1], only_if), in[2], range)))

\* bucket.put(key, value)[.http_metadata(h)][.custom_metdata(m)].execute(), up
\* to the await.
PutCall(c, inputs) ==
    \E key \in WriteKeys, in \in inputs :
        /\ clock + PendingPuts < MaxClock
        /\ Send(c, "put", key, PutRequest(WithOpt(WithOpt(BucketPut(key, in[1]), in[2], http_metadata),
                                      in[3], custom_metdata)))

\* bucket.put(key, value)[...].md5(x): the chain panics inside md5, before
\* execute() is reached, so nothing is sent.
PutMd5Call(c) ==
    \E key \in WriteKeys, in \in PutInputs :
      \E x \in Md5Inputs(in[1]) :
        /\ pc[c] = "idle"
        /\ cur' = [cur EXCEPT ![c] =
                      [Request("none", <<>>, DNone, JsUndefinedValue, JsUndef,
                               md5(WithOpt(WithOpt(BucketPut(key, in[1]), in[2], http_metadata),
                                           in[3], custom_metdata), x))
                       EXCEPT !.api = "put", !.arg = key, !.known = resolved]]
        /\ result' = [result EXCEPT ![c] = Panicked]
        /\ body' = [body EXCEPT ![c] = NoBodyState]
        /\ chain' = NoChain
        /\ UNCHANGED <<seeded, store, clock, pc, resp, resolved, settled>>

\* bucket.head(key) and bucket.delete(key), up to the await.
HeadCall(c, keys) == \E key \in keys : Send(c, "head", key, HeadRequest(key))
DeleteCall(c) == \E key \in WriteKeys : Send(c, "delete", key, DeleteRequest(key))

\* bucket.list()[.limit(n)][.prefix(p)][.cursor(x)][.include(i)].execute(), up
\* to the await.  A cursor is one that an earlier page handed out.
ListCall(c, inputs) ==
    \E in \in inputs :
        Send(c, "list", <<>>, ListRequest(WithOpt(WithOpt(WithOpt(WithOpt(BucketList, in[1], limit),
                                                    in[2], prefix), in[3], cursor),
                                    in[4], include)))

\* The binding settles the pending promise of caller c.  Any call can also
\* fail in transport, which leaves the store alone.
Binding(st, now, req) ==
    CASE req.op = "get" -> BindingGet(st, now, req)
      [] req.op = "put" -> BindingPut(st, now, req)
      [] req.op = "head" -> BindingHead(st, now, req)
      [] req.op = "delete" -> BindingDelete(st, now, req)
      [] req.op = "list" -> BindingList(st, now, req)

Serve(c) ==
    /\ pc[c] = "called"
    /\ \E out \in Binding(store, clock, cur[c])
                  \cup {[store |-> store, clock |-> clock, resp |-> Rejected("transport")]} :
          /\ store' = out.store
          /\ clock' = out.clock
          /\ resp' = [resp EXCEPT ![c] =
                         [settled |-> settled, value |-> out.resp.value,
                          status |-> out.resp.status,
                          known |-> resolved, seen |-> IF cur[c].api = "list" THEN None ELSE store[cur[c].arg]]]
    /\ pc' = [pc EXCEPT ![c] = "served"]
    /\ UNCHANGED <<seeded, cur, result, body, resolved, settled, chain>>

\* The rest of the async fn after the await.
Translate(req, r) ==
    CASE req.api = "get" -> GetTranslate(r)
      [] req.api = "put" -> PutTranslate(r)
      [] req.api = "head" -> HeadTranslate(r)
      [] req.api = "delete" -> DeleteTranslate(r)
      [] req.api = "list" -> ListTranslate(r)

OthersMutating(c, key) ==
    \E d \in Callers \ {c} : InFlight(d) /\ Mutates(cur[d]) /\ cur[d].arg = key

\* The keys of the Objects of a page.
PageKeys(objects) == MapSeq(LAMBDA object : object.raw.obj.key, ObjectsOf(objects))

Page(objects) ==
    [cursor |-> Cursor(objects), truncated |-> Truncated(objects), keys |-> PageKeys(objects)]

\* A list without cursor and prefix starts a listing; a list with the cursor
\* of the page before it, and the same limit, continues it.
Chained(self, objects) ==
    IF ~IsSome(self.prefix) /\ ~IsSome(self.cursor)
    THEN [limit |-> self.limit, pages |-> <<Page(objects)>>]
    ELSE IF /\ chain.pages # <<>>
            /\ ~IsSome(self.prefix)
            /\ self.limit = chain.limit
            /\ self.cursor = chain.pages[Len(chain.pages)].cursor
         THEN [chain EXCEPT !.pages = Append(@, Page(objects))]
         ELSE NoChain

Resolve(c) ==
    /\ pc[c] = "served"
    /\ pc' = [pc EXCEPT ![c] = "idle"]
    /\ result' = [result EXCEPT ![c] = Translate(cur[c], resp[c])]
    /\ body' = [body EXCEPT ![c] = NoBodyState]
    /\ resolved' =
          IF Mutates(cur[c]) /\ resp[c].status = "resolved"
          THEN [resolved EXCEPT ![cur[c].arg] = IF cur[c].api = "put" THEN "present" ELSE "absent"]
          ELSE resolved
    /\ settled' =
          IF Mutates(cur[c])
          THEN [settled EXCEPT ![cur[c].arg] =
                   IF @ = "clash"
                   THEN IF OthersMutating(c, cur[c].arg) THEN "clash" ELSE "any"
                   ELSE IF resp[c].status = "rejected" THEN "any"
                   ELSE IF cur[c].api = "put" THEN "present" ELSE "absent"]
          ELSE settled
    /\ chain' =
          IF cur[c].api # "list" THEN chain
          ELSE IF resp[c].status = "rejected" THEN NoChain
          ELSE Chained(cur[c].builder, resp[c].value)
    /\ UNCHANGED <<seeded, store, clock, cur, resp>>

\* The Object the caller holds, if the last operation returned one.
Held(c) ==
    IF result[c].tag # "Ok" THEN None
    ELSE IF cur[c].api = "put" THEN Some(result[c].v)
    ELSE IF cur[c].api \in {"get", "head"} THEN result[c].v
    ELSE None

\* object.body().map(|b| b.stream()), mod.rs:97-122.  stream() refuses when the
\* handle's bodyUsed getter says so; else it takes the handle's ReadableStream
\* and locks it to a reader (into_stream), which panics when a reader holds it.
Stream(c) ==
    /\ pc[c] = "idle"
    /\ IsSome(Held(c))
    /\ HasBody(Unwrap(Held(c)))
    /\ Len(body[c].log) < MaxStreamCalls
    /\ body' = [body EXCEPT ![c] =
                   IF @.used THEN [@ EXCEPT !.log = Append(@, "BodyUsed")]
                   ELSE IF @.locked THEN [@ EXCEPT !.log = Append(@, "Panic")]
                   ELSE [@ EXCEPT !.log = Append(@, "Ok"), !.locked = TRUE]]
    /\ UNCHANGED <<seeded, store, clock, pc, cur, resp, result, resolved, settled, chain>>

\* The caller polls the ByteStream: the host hands over the bytes and from
\* then on reports bodyUsed.
Read(c) ==
    /\ body[c].locked
    /\ ~body[c].used
    /\ body' = [body EXCEPT ![c] = [@ EXCEPT !.used = TRUE,
                                              !.got = Some(Unwrap(Held(c)).raw.body)]]
    /\ UNCHANGED <<seeded, store, clock, pc, cur, resp, result, resolved, settled, chain>>

\* The caller drops the ByteStream: the reader's lock is released; whether
\* the drop also cancels the stream (which marks the body used) depends on
\* the stream adapter.
Drop(c) ==
    /\ body[c].locked
    /\ \E cancels \in BOOLEAN :
          body' = [body EXCEPT ![c] = [@ EXCEPT !.locked = FALSE,
                                                  !.used = @ \/ cancels]]
    /\ UNCHANGED <<seeded, store, clock, pc, cur, resp, result, resolved, settled, chain>>

\* One worker using the whole API.
Next ==
    \/ GetCall(1, Keys, GetInputs)
    \/ PutCall(1, PutInputs)
    \/ PutMd5Call(1)
    \/ HeadCall(1, Keys)
    \/ DeleteCall(1)
    \/ ListCall(1, ListInputs)
    \/ Serve(1)
    \/ Resolve(1)
    \/ Stream(1)
    \/ Read(1)
    \/ Drop(1)

Spec == Init /\ [][Next]_vars

\* Two workers on the same bucket, in every interleaving of their calls and of
\* the binding's answers: worker 1 reads, writes and deletes one key with
\* default options while worker 2 writes and deletes it.
NextShared ==
    \/ GetCall(1, WriteKeys, PlainGetInputs)
    \/ HeadCall(1, WriteKeys)
    \/ ListCall(1, PlainListInputs)
    \/ \E c \in Callers :
          \/ PutCall(c, PlainPutInputs)
          \/ DeleteCall(c)
          \/ Serve(c)
          \/ Resolve(c)

SpecShared == InitShared /\ [][NextShared]_vars

\* The conversions between Range and its descriptor, applied to every value
\* with fields up to MaxRange.  No request is made: the caller stays idle.
RangeValues ==
    {OffsetWithLength(o, l) : o \in 0..MaxRange, l \in 0..MaxRange}
    \cup {OffsetWithOptionalLength(o, l) : o \in 0..MaxRange, l \in OptionOf(0..MaxRange)}
    \cup {OptionalOffsetWithLength(o, l) : o \in OptionOf(0..MaxRange), l \in 0..MaxRange}
    \cup {Suffix(x) : x \in 0..MaxRange}

SysValues ==
    {R2RangeSys(o, l, x) : o \in OptionOf(0..MaxRange), l \in OptionOf(0..MaxRange),
                           x \in OptionOf(0..MaxRange)}

Convert(c, api, arg, res) ==
    /\ pc[c] = "idle"
    /\ cur' = [cur EXCEPT ![c] = [NoRequest EXCEPT !.api = api, !.arg = arg]]
    /\ result' = [result EXCEPT ![c] = res]
    /\ UNCHANGED <<seeded, store, clock, pc, resp, body, resolved, settled, chain>>

\* Range::try_from(descriptor).
TryFromCall(c) == \E val \in SysValues : Convert(c, "try_from", val, RangeTryFrom(val))

\* Range::try_from(R2RangeSys::from(range)).
RoundTripCall(c) ==
    \E val \in RangeValues : Convert(c, "round_trip", val, RangeTryFrom(RangeToSys(val)))

InitRange == InitWith({Seeded({})})

NextRange ==
    \/ TryFromCall(1)
    \/ RoundTripCall(1)

SpecRange == InitRange /\ [][NextRange]_vars

\* Two readers sharing the Object that worker o holds.  The handle's bodyUsed
\* is body[o].used; body[r].locked says that reader r holds a ByteStream, whose
\* reader locks the handle's ReadableStream; body[r].log lists what reader r's
\* calls of body().stream() returned.
StreamLocked == \E q \in Callers : body[q].locked

SharedStream(o, r) ==
    /\ pc[o] = "idle"
    /\ IsSome(Held(o))
    /\ HasBody(Unwrap(Held(o)))
    /\ Len(body[r].log) < MaxStreamCalls
    /\ body' = [body EXCEPT ![r] =
                   IF body[o].used THEN [@ EXCEPT !.log = Append(@, "BodyUsed")]
                   ELSE IF StreamLocked THEN [@ EXCEPT !.log = Append(@, "Panic")]
                   ELSE [@ EXCEPT !.log = Append(@, "Ok"), !.locked = TRUE]]
    /\ UNCHANGED <<seeded, store, clock, pc, cur, resp, result, resolved, settled, chain>>

\* Reader r polls its ByteStream: the host hands over the bytes and from then
\* on reports bodyUsed.
SharedRead(o, r) ==
    /\ body[r].locked
    /\ ~body[o].used
    /\ body' = [q \in Callers |->
                   [body[q] EXCEPT !.used = IF q = o THEN TRUE ELSE @,
                                   !.got = IF q = r THEN Some(Unwrap(Held(o)).raw.body) ELSE @]]
    /\ UNCHANGED <<seeded, store, clock, pc, cur, resp, result, resolved, settled, chain>>

\* Reader r drops its ByteStream: the lock is released; whether the drop also
\* cancels the stream (which marks the body used) depends on the adapter.
SharedDrop(o, r) ==
    /\ body[r].locked
    /\ \E cancels \in BOOLEAN :
          body' = [q \in Callers |->
                      [body[q] EXCEPT !.locked = IF q = r THEN FALSE ELSE @,
                                      !.used = IF q = o THEN @ \/ cancels ELSE @]]
    /\ UNCHANGED <<seeded, store, clock, pc, cur, resp, result, resolved, settled, chain>>

\* Worker 1 gets one Object; then both readers use it.
SharedGet(o) ==
    /\ \A q \in Callers : body[q] = NoBodyState
    /\ GetCall(o, Keys, PlainGetInputs)

InitReaders == InitWith({Seeded({<<1>>}), Seeded(Keys)})

NextReaders ==
    \/ SharedGet(1)
    \/ Serve(1)
    \/ Resolve(1)
    \/ \E r \in Callers :
          \/ SharedStream(1, r)
          \/ SharedRead(1, r)
          \/ SharedDrop(1, r)

SpecReaders == InitReaders /\ [][NextReaders]_vars

\* The sandbox's seed_bucket, worker-sandbox/src/r2.rs:12-32, called by the
\* handlers of concurrent requests.  The three names are, in their order in a
\* listing, the three keys of the model.
KeyNoProps == <<1>>
KeyNoPropsNoBody == <<1, 2>>
KeyWithProps == <<2>>

\* bucket.put(key, value).execute() inside seed_bucket, up to the await.
SeedPut(c, key, value) ==
    /\ pc' = [pc EXCEPT ![c] = "called"]
    /\ cur' = [cur EXCEPT ![c] =
                  [PutRequest(BucketPut(key, value))
                   EXCEPT !.api = "seed_bucket", !.arg = key, !.known = resolved]]
    /\ result' = [result EXCEPT ![c] = NoResult]

\* seed_bucket up to its first await: under the lock, return Ok(()) when
\* SEEDED is set, else set it; then send the first put.
SeedEnter(c) ==
    /\ pc[c] = "idle"
    /\ IF seeded
       THEN /\ cur' = [cur EXCEPT ![c] = [NoRequest EXCEPT !.api = "seed_bucket"]]
            /\ result' = [result EXCEPT ![c] = Ok(<<>>)]
            /\ UNCHANGED <<seeded, pc>>
       ELSE /\ seeded' = TRUE
            /\ SeedPut(c, KeyNoProps, DText(<<65>>))
    /\ UNCHANGED <<store, clock, resp, body, resolved, settled, chain>>

\* seed_bucket after an await: a failed put is returned with `?`; after the
\* first put the second is sent; after the second, put_full_properties builds
\* its put with .md5(..), which panics before execute() (builder.rs:176-179).
SeedResume(c) ==
    /\ pc[c] = "served"
    /\ cur[c].api = "seed_bucket"
    /\ IF PutTranslate(resp[c]).tag = "Err"
       THEN /\ pc' = [pc EXCEPT ![c] = "idle"]
            /\ result' = [result EXCEPT ![c] = PutTranslate(resp[c])]
            /\ UNCHANGED cur
       ELSE IF cur[c].arg = KeyNoProps
       THEN SeedPut(c, KeyNoPropsNoBody, DNone)
       ELSE /\ pc' = [pc EXCEPT ![c] = "idle"]
            /\ cur' = [cur EXCEPT ![c] =
                          [Request("none", <<>>, DNone, JsUndefinedValue, JsUndef,
                                   md5(custom_metdata(http_metadata(BucketPut(KeyWithProps, DText(<<65>>)),
                                                                    HttpDummy),
                                                      [k \in {"a"} |-> "b"]),
                                       Md5(PayloadBytes(DText(<<65>>)))))
                           EXCEPT !.api = "seed_bucket", !.arg = KeyWithProps, !.known = resolved]]
            /\ result' = [result EXCEPT ![c] = Panicked]
    /\ UNCHANGED <<seeded, store, clock, resp, body, resolved, settled, chain>>

\* Caller c's call of seed_bucket has returned Ok(()).
SeedReturnedOk(c) ==
    pc[c] = "idle" /\ cur[c].api = "seed_bucket" /\ result[c] = Ok(<<>>)

\* The handlers `list` and `get` after seed_bucket(&bucket).await?, up to
\* their next await: worker-sandbox/src/r2.rs:49 and r2.rs:124.
HandlerList(c) == SeedReturnedOk(c) /\ ListCall(c, PlainListInputs)
HandlerGet(c) == SeedReturnedOk(c) /\ GetCall(c, {KeyNoProps}, PlainGetInputs)
HandlerResume(c) == cur[c].api # "seed_bucket" /\ Resolve(c)

\* A fresh worker and an empty bucket.
InitSeed == InitWith({EmptyStore})

NextSeed ==
    \E c \in Callers :
        \/ SeedEnter(c)
        \/ Serve(c)
        \/ SeedResume(c)
        \/ HandlerList(c)
        \/ HandlerGet(c)
        \/ HandlerResume(c)

SpecSeed == InitSeed /\ [][NextSeed]_vars

\* A builder held by a worker between Bucket::get, Bucket::put or Bucket::list
\* and execute(): the setters are applied one call at a time.  While the
\* builder is held, cur[c].arg logs the calls made on it: first the builder as
\* the bucket returned it, then <<field, value>> for each setter call.
MaxSetterCalls == 3

BuilderKinds == {"get_builder", "put_builder", "list_builder"}

Building(c) == pc[c] = "idle" /\ cur[c].api \in BuilderKinds

Build(c, kind, self, log, res) ==
    /\ pc[c] = "idle"
    /\ cur' = [cur EXCEPT ![c] =
                  [Request("none", <<>>, DNone, JsUndefinedValue, JsUndef, self)
                   EXCEPT !.api = kind, !.arg = log]]
    /\ result' = [result EXCEPT ![c] = res]
    /\ body' = [body EXCEPT ![c] = NoBodyState]
    /\ chain' = NoChain
    /\ UNCHANGED <<seeded, store, clock, pc, resp, resolved, settled>>

\* bucket.get(key), bucket.put(key, value), bucket.list().
NewBuilder(c) ==
    \/ \E key \in {<<1>>, <<2>>} :
          Build(c, "get_builder", BucketGet(key), <<<<"new", BucketGet(key)>>>>, NoResult)
    \/ \E key \in WriteKeys, value \in {DText(<<65>>)} :
          Build(c, "put_builder", BucketPut(key, value),
                <<<<"new", BucketPut(key, value)>>>>, NoResult)
    \/ Build(c, "list_builder", BucketList, <<<<"new", BucketList>>>>, NoResult)

\* The setter calls a worker makes, as <<field, value>>.
GetSetters ==
    {<<"only_if", x>> : x \in {ConditionalAll, Conditional(Some(1), None, None, None)}}
    \cup {<<"range", x>> : x \in RangeInputs}

PutSetters ==
    {<<"http_metadata", x>> : x \in {HttpNoExpiry, HttpDummy}}
    \cup {<<"custom_metadata", x>> : x \in {[k \in {"a"} |-> "b"], [k \in {"a"} |-> "c"]}}
    \cup {<<"md5", x>> : x \in {<<0, 99>>}}

ListSetters ==
    {<<"limit", x>> : x \in {1, 2}}
    \cup {<<"prefix", x>> : x \in {<<1>>}}
    \cup {<<"cursor", x>> : x \in {<<1>>}}
    \cup {<<"delimiter", x>> : x \in {2}}
    \cup {<<"include", x>> : x \in {<<"CustomMetadata">>}}

Setters(kind) ==
    CASE kind = "get_builder" -> GetSetters
      [] kind = "put_builder" -> PutSetters
      [] kind = "list_builder" -> ListSetters

\* The builder a setter call returns.
Apply(self, call) ==
    CASE call[1] = "only_if" -> only_if(self, call[2])
      [] call[1] = "range" -> range(self, call[2])
      [] call[1] = "http_metadata" -> http_metadata(self, call[2])
      [] call[1] = "custom_metadata" -> custom_metdata(self, call[2])
      [] call[1] = "md5" -> md5(self, call[2])
      [] call[1] = "limit" -> limit(self, call[2])
      [] call[1] = "prefix" -> prefix(self, call[2])
      [] call[1] = "cursor" -> cursor(self, call[2])
      [] call[1] = "delimiter" -> delimiter(self, call[2])
      [] call[1] = "include" -> include(self, call[2])

\* builder.setter(value).  md5 stores the digest and panics in todo!()
\* (builder.rs:176-179): the builder is dropped and the chain ends there.
SetterCall(c) ==
    /\ Building(c)
    /\ Len(cur[c].arg) <= MaxSetterCalls
    /\ \E call \in Setters(cur[c].api) :
          IF call[1] = "md5"
          THEN Build(c, "put", Apply(cur[c].builder, call), Append(cur[c].arg, call), Panicked)
          ELSE Build(c, cur[c].api, Apply(cur[c].builder, call), Append(cur[c].arg, call),
                     NoResult)

\* builder.execute(), up to the await.
ExecuteCall(c) ==
    /\ Building(c)
    /\ LET self == cur[c].builder
       IN  \/ /\ cur[c].api = "get_builder"
              /\ Send(c, "get", self.key, GetRequest(self))
           \/ /\ cur[c].api = "put_builder"
              /\ clock + PendingPuts < MaxClock
              /\ Send(c, "put", self.key, PutRequest(self))
           \/ /\ cur[c].api = "list_builder"
              /\ Send(c, "list", <<>>, ListRequest(self))

InitBuilder == InitWith({Seeded({<<1>>})})

NextBuilder ==
    \/ NewBuilder(1)
    \/ SetterCall(1)
    \/ ExecuteCall(1)
    \/ Serve(1)
    \/ Resolve(1)

SpecBuilder == InitBuilder /\ [][NextBuilder]_vars

\* --------------------------------------------------------- properties
\* Caller c's call of `api` has returned.
Done(c, api) == pc[c] = "idle" /\ cur[c].api = api /\ result[c].tag # "NoResult"

\* The binding answered caller c's request; the call did not fail in transport.
Answered(c) == ~(resp[c].status = "rejected" /\ resp[c].value.error = "transport")

\* The accessors of Object for the stored metadata; HttpMetadata is rebuilt
\* field by field from the handle's httpMetadata (builder.rs:254-265).
HttpMetadataFromSys(val) ==
    HttpMetadata(val.content_type, val.content_language, val.content_disposition,
                 val.content_encoding, val.cache_control, val.cache_expiry)

ObjectHttpMetadata(object) == HttpMetadataFromSys(object.raw.obj.http)
ObjectCustomMetadata(object) == object.raw.obj.custom

\* C1: on an Object that get returned with a body, the first body().stream()
\* succeeds and the second fails with Error::BodyUsed, whether or not the first
\* stream was read in between.
C1_SecondStreamIsBodyUsed ==
    \A c \in Callers :
        cur[c].api = "get" /\ Len(body[c].log) >= 2
            => body[c].log[1] = "Ok" /\ body[c].log[2] = "BodyUsed"

\* C2: a get without options of a key that a put wrote returns Some(Object);
\* its body holds exactly the bytes of the payload that was put (the chunks of
\* a Stream in order), and it has no body when the payload was R2Data::None.
C2_PutGetRoundTrip ==
    \A c \in Callers :
        /\ Done(c, "get") /\ result[c].tag = "Ok"
        /\ cur[c].builder.only_if = None /\ cur[c].builder.range = None
        => /\ resp[c].settled[cur[c].arg] = "present" => IsSome(resp[c].seen)
           /\ IsSome(resp[c].seen) =>
                LET v == Unwrap(resp[c].seen).by.value
                IN  /\ IsSome(result[c].v)
                    /\ v.tag = "None" => ~HasBody(Unwrap(result[c].v))
                    /\ v.tag # "None" =>
                          /\ HasBody(Unwrap(result[c].v))
                          /\ Unwrap(result[c].v).raw.body = PayloadBytes(v)
                    /\ IsSome(body[c].got) => Unwrap(body[c].got) = PayloadBytes(v)

C2_Witness ==
    \E c \in Callers :
        /\ Done(c, "get") /\ result[c].tag = "Ok"
        /\ cur[c].builder.only_if = None /\ cur[c].builder.range = None
        /\ IsSome(resp[c].seen)
        /\ Unwrap(resp[c].seen).by.value = DStream(<<<<7>>, <<8, 9>>>>, FALSE)
        /\ resp[c].settled[cur[c].arg] = "present"
        /\ body[c].got = Some(<<7, 8, 9>>)

\* Whether a stored object satisfies a Conditional.
ConditionalSatisfied(cond, o) ==
    /\ IsSome(cond.etag_matches) => Unwrap(cond.etag_matches) = o.etag
    /\ IsSome(cond.etag_does_not_match) => Unwrap(cond.etag_does_not_match) # o.etag
    /\ IsSome(cond.uploaded_before) => o.uploaded < Unwrap(cond.uploaded_before)
    /\ IsSome(cond.uploaded_after) => o.uploaded > Unwrap(cond.uploaded_after)

\* C3: a get of an existing key returns Ok(Some(Object)); the Object has no
\* body when the stored object does not satisfy the Conditional of only_if, and
\* has a body when it does or when no Conditional was given.
C3_ConditionalExcludesBody ==
    \A c \in Callers :
        Done(c, "get") /\ Answered(c) /\ IsSome(resp[c].seen)
        => /\ result[c].tag = "Ok"
           /\ IsSome(result[c].v)
           /\ HasBody(Unwrap(result[c].v))
                <=> \/ ~IsSome(cur[c].builder.only_if)
                    \/ ConditionalSatisfied(Unwrap(cur[c].builder.only_if),
                                            Unwrap(resp[c].seen))

\* C4: a put configured with md5 succeeds when the digest is that of the
\* payload and fails with an error when it is not.
C4_Md5PutIsChecked ==
    \A c \in Callers :
        pc[c] = "idle" /\ cur[c].api = "put" /\ result[c].tag # "NoResult"
        /\ IsSome(cur[c].builder.md5)
        => IF Unwrap(cur[c].builder.md5) = Md5(PayloadBytes(cur[c].builder.value))
           THEN result[c].tag = "Ok"
           ELSE result[c].tag = "Err"

\* C5: a put whose chunk source fails returns an error and commits nothing:
\* the key holds what it held before the put.
C5_FailedStreamNotCommitted ==
    \A c \in Callers :
        cur[c].api = "put" /\ cur[c].builder.value.tag = "Stream"
        /\ cur[c].builder.value.fails /\ ~IsSome(cur[c].builder.md5)
        => /\ pc[c] = "served" => resp[c].status = "rejected" /\ store[cur[c].arg] = resp[c].seen
           /\ Done(c, "put") => result[c].tag = "Err" /\ store[cur[c].arg] = resp[c].seen

C5_Witness ==
    \E c \in Callers :
        /\ Done(c, "put")
        /\ cur[c].builder.value = DStream(<<<<7>>>>, TRUE)
        /\ result[c] = Err("stream")
        /\ IsSome(store[cur[c].arg])
        /\ store[cur[c].arg] = resp[c].seen

\* The keys the bucket holds.
Present == {k \in Keys : IsSome(store[k])}

CeilDiv(n, l) == (n + l - 1) \div l

\* The keys of the pages of the listing in progress, in the order returned.
ChainKeys == Concat(MapSeq(LAMBDA p : p.keys, chain.pages))

\* C6: on every page of a listing cursor() is Some exactly when truncated()
\* is true.  Following the cursors of a listing, with no mutation meanwhile,
\* every page but the last is truncated, the keys returned so far are the
\* first keys of the bucket in order, each once; and when a page comes back not
\* truncated the keys returned are all the keys of the bucket, in ceil(N/L)
\* pages when the limit L is below the number N of keys, and in one page of no
\* objects when the bucket is empty.
C6_Pagination ==
    /\ \A c \in Callers :
          Done(c, "list") /\ result[c].tag = "Ok"
              => (IsSome(Cursor(result[c].v)) <=> Truncated(result[c].v))
    /\ chain.pages # <<>> =>
          LET all == SortKeys(Present)
              n == Len(chain.pages)
          IN  /\ \A i \in 1..n : IsSome(chain.pages[i].cursor) <=> chain.pages[i].truncated
              /\ \A i \in 1..(n - 1) : chain.pages[i].truncated
              /\ Len(ChainKeys) <= Len(all)
              /\ ChainKeys = SubSeq(all, 1, Len(ChainKeys))
              /\ ~chain.pages[n].truncated =>
                    /\ ChainKeys = all
                    /\ IsSome(chain.limit) /\ Unwrap(chain.limit) < Len(all)
                          => n = CeilDiv(Len(all), Unwrap(chain.limit))
                    /\ all = <<>> => n = 1 /\ ~IsSome(chain.pages[1].cursor)

C6_Witness ==
    /\ Present = Keys
    /\ chain.limit = Some(1)
    /\ Len(chain.pages) = 3
    /\ ~chain.pages[3].truncated
    /\ ChainKeys = SortKeys(Keys)
    /\ Done(1, "list")

\* Whether the read that caller c made observed key k.
Observed(c, k) ==
    IF cur[c].api = "list" THEN \E i \in 1..Len(PageKeys(result[c].v)) : PageKeys(result[c].v)[i] = k
    ELSE IsSome(result[c].v)

\* Caller c's read of key k returned successfully.
ReadOf(c, k) ==
    /\ pc[c] = "idle" /\ result[c].tag = "Ok"
    /\ \/ cur[c].api \in {"get", "head"} /\ cur[c].arg = k
       \/ cur[c].api = "list"

\* C7 as stated: a read issued after a put of k resolved successfully, and
\* answered before a later put or delete of k resolves, observes k; a read
\* issued after a delete of k resolved, and answered before a later put or
\* delete of k resolves, does not.
C7_ResolvedIsVisible ==
    \A c \in Callers : \A k \in WriteKeys :
        ReadOf(c, k) /\ cur[c].known[k] = resp[c].known[k]
        => /\ cur[c].known[k] = "present" => Observed(c, k)
           /\ cur[c].known[k] = "absent" => ~Observed(c, k)

\* C7, amended: once a put of k has resolved successfully, with no other put
\* or delete of k in flight while it was, every read that the binding answers
\* before another put or delete of k is issued observes k; and likewise no
\* such read observes k after a delete of k.
C7_SettledIsVisible ==
    \A c \in Callers : \A k \in WriteKeys :
        ReadOf(c, k)
        => /\ resp[c].settled[k] = "present" => Observed(c, k)
           /\ resp[c].settled[k] = "absent" => ~Observed(c, k)

C7_Witness ==
    \E k \in WriteKeys :
        /\ ReadOf(1, k) /\ cur[1].api = "get"
        /\ cur[1].known[k] = "present" /\ resp[1].settled[k] = "present"
        /\ pc[2] = "idle" /\ cur[2].api = "put" /\ cur[2].arg = k /\ result[2].tag = "Ok"
        /\ Observed(1, k)

\* The metadata a put builder asks the store to keep.
SuppliedHttp(b) == IF IsSome(b.http_metadata) THEN Unwrap(b.http_metadata) ELSE HttpDefault
SuppliedCustom(b) == IF IsSome(b.custom_metadata) THEN Unwrap(b.custom_metadata) ELSE NoMap

\* C8: the Object that put returns, and the Object of a later get of the key,
\* carry the HttpMetadata and the CustomMetadata that were supplied on the
\* put, unchanged.
C8_MetadataRoundTrip ==
    \A c \in Callers :
        /\ Done(c, "put") /\ result[c].tag = "Ok"
            => /\ ObjectHttpMetadata(result[c].v) = SuppliedHttp(cur[c].builder)
               /\ ObjectCustomMetadata(result[c].v) = SuppliedCustom(cur[c].builder)
        /\ Done(c, "get") /\ result[c].tag = "Ok" /\ IsSome(result[c].v) /\ IsSome(resp[c].seen)
            => /\ ObjectHttpMetadata(Unwrap(result[c].v))
                    = SuppliedHttp(Unwrap(resp[c].seen).by)
               /\ ObjectCustomMetadata(Unwrap(result[c].v))
                    = SuppliedCustom(Unwrap(resp[c].seen).by)

\* C9: a get or a head of a key the bucket does not hold returns Ok(None),
\* whatever Conditional and Range the get builder carries.
C9_AbsentKeyIsNone ==
    \A c \in Callers :
        (Done(c, "get") \/ Done(c, "head")) /\ Answered(c) /\ ~IsSome(resp[c].seen)
        => result[c] = Ok(None)

\* Every Object of a page is without a body.
PageHasNoBody(objects) ==
    \A i \in 1..Len(ObjectsOf(objects)) : ~HasBody(ObjectsOf(objects)[i])

\* C10 as stated: no Object returned by head, by put or in a listing has a body.
C10_OnlyGetHasBody ==
    \A c \in Callers :
        /\ Done(c, "head") /\ result[c].tag = "Ok" /\ IsSome(result[c].v)
              => ~HasBody(Unwrap(result[c].v))
        /\ Done(c, "put") /\ result[c].tag = "Ok" => ~HasBody(result[c].v)
        /\ Done(c, "list") /\ result[c].tag = "Ok" => PageHasNoBody(result[c].v)

\* C10, amended: no Object returned by head or in a listing has a body,
\* whatever the binding answered; the Object put returns has a body exactly
\* when the binding's answer has a bodyUsed property.
C10_HeadAndListHaveNoBody ==
    \A c \in Callers :
        /\ Done(c, "head") /\ result[c].tag = "Ok" /\ IsSome(result[c].v)
              => ~HasBody(Unwrap(result[c].v))
        /\ Done(c, "put") /\ result[c].tag = "Ok"
              => (HasBody(result[c].v) <=> resp[c].value.hasBodyUsed)
        /\ Done(c, "list") /\ result[c].tag = "Ok" => PageHasNoBody(result[c].v)

C10_Witness ==
    \E c \in Callers :
        /\ Done(c, "head") /\ result[c].tag = "Ok" /\ IsSome(result[c].v)
        /\ resp[c].value.hasBodyUsed
        /\ ~HasBody(Unwrap(result[c].v))

\* The four canonical forms of a range descriptor: {offset, length},
\* {offset}, {length}, {suffix}.
Canonical(val) ==
    \/ IsSome(val.offset) /\ IsSome(val.length) /\ ~IsSome(val.suffix)
    \/ IsSome(val.offset) /\ ~IsSome(val.length) /\ ~IsSome(val.suffix)
    \/ ~IsSome(val.offset) /\ IsSome(val.length) /\ ~IsSome(val.suffix)
    \/ ~IsSome(val.offset) /\ ~IsSome(val.length) /\ IsSome(val.suffix)

\* C11: Range::try_from accepts a descriptor exactly when it has one of the
\* four canonical forms, the Range it returns has the fields of the
\* descriptor, and a refusal is an error returned with no request made.
C11_TryFromAcceptsCanonical ==
    \A c \in Callers :
        cur[c].api = "try_from"
        => /\ result[c].tag = "Ok" <=> Canonical(cur[c].arg)
           /\ result[c].tag = "Ok" =>
                 /\ result[c].v.offset = cur[c].arg.offset
                 /\ result[c].v.length = cur[c].arg.length
                 /\ result[c].v.suffix = cur[c].arg.suffix
           /\ result[c].tag # "Ok" => result[c] = Err("invalid range")
           /\ pc[c] = "idle" /\ resp[c] = NoResponse

C11_Witness ==
    \E c \in Callers :
        /\ cur[c].api = "try_from"
        /\ cur[c].arg = R2RangeSys(None, Some(1), Some(2))
        /\ result[c] = Err("invalid range")

\* C18 as stated: the descriptor of a Range never has suffix together with
\* offset or length, try_from of it succeeds, and the result is the Range.
C18_RangeRoundTrip ==
    \A c \in Callers :
        cur[c].api = "round_trip"
        => /\ IsSome(RangeToSys(cur[c].arg).suffix)
                 => ~IsSome(RangeToSys(cur[c].arg).offset) /\ ~IsSome(RangeToSys(cur[c].arg).length)
           /\ result[c] = Ok(cur[c].arg)

\* C18, amended: the descriptor of a Range never has suffix together with
\* offset or length, try_from of it succeeds, and the result has the same
\* descriptor as the Range; it is the Range itself unless the Range is an
\* OffsetWithOptionalLength with a length or an OptionalOffsetWithLength with
\* an offset, which both come back as OffsetWithLength.
C18_RangeRoundTripUpToForm ==
    \A c \in Callers :
        cur[c].api = "round_trip"
        => LET r == cur[c].arg
               twoFields == /\ r.variant \in {"OffsetWithOptionalLength", "OptionalOffsetWithLength"}
                            /\ IsSome(r.offset) /\ IsSome(r.length)
           IN  /\ IsSome(RangeToSys(r).suffix)
                     => ~IsSome(RangeToSys(r).offset) /\ ~IsSome(RangeToSys(r).length)
               /\ result[c].tag = "Ok"
               /\ RangeToSys(result[c].v) = RangeToSys(r)
               /\ result[c].v.offset = r.offset /\ result[c].v.length = r.length
               /\ result[c].v.suffix = r.suffix
               /\ IF twoFields
                  THEN result[c].v = OffsetWithLength(Unwrap(r.offset), Unwrap(r.length))
                  ELSE result[c].v = r

C18_Witness ==
    \E c \in Callers :
        /\ cur[c].api = "round_trip"
        /\ cur[c].arg = OffsetWithOptionalLength(1, Some(2))
        /\ result[c] = Ok(OffsetWithLength(1, 2))

\* C12: the limit of a list request handed to the binding is never above
\* 1000: a larger limit is clamped, or refused before the request is made.
C12_LimitAtMostMax ==
    \A c \in Callers :
        cur[c].op = "list" /\ Prop(cur[c].options, "limit").kind = "number"
        => Prop(cur[c].options, "limit").n <= ListLimitMax

\* C13: the include value of a list request is, when include was set, an
\* array holding exactly the names of the flags in order ("httpMetadata",
\* "customMetadata"), and undefined when it was not set.
C13_IncludeIsNamesInOrder ==
    \A c \in Callers :
        cur[c].op = "list"
        => Prop(cur[c].options, "include")
              = IF IsSome(cur[c].builder.include)
                THEN JsArray(MapSeq(LAMBDA i : JsStr(IncludeName(i)),
                                    Unwrap(cur[c].builder.include)))
                ELSE JsUndef

\* C15: an operation calls the binding once, with the method of the
\* operation; once the binding has answered, the operation returns without
\* another call: Err with the binding's error when the call failed, Ok when it
\* succeeded; and the bucket changes only when the binding answers a call.
C15_OneCallNoRetry ==
    [][\A c \in Callers :
          /\ pc[c] = "idle" /\ pc'[c] # "idle"
                => pc'[c] = "called" /\ cur'[c].op = cur'[c].api /\ resp'[c] = resp[c]
          /\ pc[c] = "called" /\ pc'[c] # "called"
                => pc'[c] = "served" /\ cur'[c] = cur[c] /\ resp'[c].status # "none"
          /\ pc[c] = "served" /\ pc'[c] # "served"
                => /\ pc'[c] = "idle" /\ cur'[c] = cur[c] /\ resp'[c] = resp[c]
                   /\ store' = store
                   /\ IF resp[c].status = "rejected"
                      THEN result'[c] = Err(resp[c].value.error)
                      ELSE result'[c].tag = "Ok"
          /\ store' # store => \E d \in Callers : pc[d] = "called" /\ pc'[d] = "served"
      ]_vars

C15_Witness ==
    \E c \in Callers :
        /\ Done(c, "get")
        /\ resp[c].status = "rejected"
        /\ result[c] = Err("transport")


\* The options a builder of the given kind sends when executed.
OptionsOf(kind, self) ==
    CASE kind = "get_builder" -> GetRequest(self).options
      [] kind = "put_builder" -> PutRequest(self).options
      [] kind = "list_builder" -> ListRequest(self).options

\* The value the last setter call for `field` in the log passed, if any.
LastWrite(log, field) ==
    LET hits == {i \in 2..Len(log) : log[i][1] = field}
    IN  IF hits = {} THEN None
        ELSE Some(log[CHOOSE i \in hits : \A j \in hits : j <= i][2])

\* The builder the log stands for: key and payload as the bucket set them,
\* every option field as its last setter call left it.
LastWrites(log) ==
    [f \in DOMAIN log[1][2] |->
        IF f \in {"key", "value"} THEN log[1][2][f] ELSE LastWrite(log, f)]

\* C16: every setter call returns the builder with the field it names set to
\* the value passed and with the key, the payload and every other field as
\* they were; and execute() sends, field by field, what the last setter call
\* for that field passed, or nothing where no setter was called.
C16_SettersLastWriteWins ==
    [][\A c \in Callers :
          /\ Building(c) /\ pc'[c] = "idle" /\ Len(cur'[c].arg) = Len(cur[c].arg) + 1
                => LET call == cur'[c].arg[Len(cur'[c].arg)]
                   IN  /\ result'[c].tag # "Panic"
                       /\ cur'[c].api = cur[c].api
                       /\ cur'[c].builder[call[1]] = Some(call[2])
                       /\ \A f \in DOMAIN cur[c].builder \ {call[1]} :
                             cur'[c].builder[f] = cur[c].builder[f]
          /\ Building(c) /\ pc'[c] = "called"
                => /\ cur'[c].builder = LastWrites(cur[c].arg)
                   /\ cur'[c].options = OptionsOf(cur[c].api, LastWrites(cur[c].arg))
      ]_vars


\* C14: once a stream() call on an Object has returned a stream, the body
\* counts as used at once, before any byte is read; so of two readers that
\* each called body().stream() on the same Object, in whatever order, at most
\* one has a stream and the other was answered BodyUsed.
C14_OneReaderStreams ==
    /\ (\E r \in Callers : \E i \in DOMAIN body[r].log : body[r].log[i] = "Ok") => body[1].used
    /\ \A r, q \in Callers :
          r # q /\ body[r].log # <<>> /\ body[q].log # <<>> /\ body[r].log[1] = "Ok"
              => body[q].log[1] = "BodyUsed"


\* C17: when seed_bucket has returned Ok(()) to a caller, the bucket holds
\* "no-props", "no-props-no-body" and "with-props", however the calls of
\* concurrent requests interleave and also after a call whose puts failed.
C17_SeededWhenOk ==
    \A c \in Callers :
        SeedReturnedOk(c) => \A k \in {KeyNoProps, KeyNoPropsNoBody, KeyWithProps} : IsSome(store[k])

====
